---- MODULE Spec2Model ----
(***************************************************************************)
(* The voice session engine of SpeakToMe (the useGeminiLive hook).         *)
(*                                                                         *)
(* The repository holds several revisions of the hook.  The playback      *)
(* scheduler, the interruption handling and the session life cycle are    *)
(* modelled from src/unnamed/part_003 (the revision with updateMessages   *)
(* and sendText).  The transcript log differs between the revisions; the  *)
(* variable revision, fixed at the start, selects whose reconciliation     *)
(* and whose sendText the engine runs:                                     *)
(*   "part_003"  src/unnamed/part_003  (search backwards for tentative)    *)
(*   "part_002"  src/unnamed/part_002  (temp-user / temp-model entries)    *)
(*   "v3"        src/hooks/useGeminiLive.ts 597-994 (append to last)       *)
(*                                                                         *)
(* Text is a sequence of characters.  Time is the output AudioContext's    *)
(* currentTime, in whole units.                                            *)
(***************************************************************************)
EXTENDS Integers, Sequences, FiniteSets

VARIABLES
  status,                       \* SessionStatus
  errorMessage,                 \* TRUE when an error text is set
  connectPc,                    \* position of the async connect()
  channel,                      \* the live session's socket
  streamRef,                    \* TRUE when a microphone stream is held
  sessionPromiseRef,            \* TRUE when non-null
  outputAudioContext,           \* "null" | "running" | "closed" (both contexts)
  capturing,                    \* TRUE while the capture processor delivers frames
  liveStreams,                  \* microphone streams acquired and not stopped
  liveChannels,                 \* live sessions opened and not closed
  queuedFrames,                 \* captured frames waiting on the unresolved session promise
  worklets,                     \* the PCM processors that are running, oldest first
  lastFrame,                    \* history: the last frame a processor handed over
  clock,                        \* outputAudioContextRef.current.currentTime
  nextStartTime,                \* nextStartTimeRef.current
  audioSources,                 \* audioSourcesRef.current
  pending,                      \* onmessage calls suspended at await decodeAudioData
  sendPending,                  \* sendText calls suspended at await sessionPromise
  revision,                     \* which revision of the hook runs
  messages,                     \* ChatMessage[]
  currentInputTranscription,    \* currentInputTranscriptionRef.current
  currentOutputTranscription,   \* currentOutputTranscriptionRef.current
  sent,                         \* number of client text turns put on the channel
  playLog,                      \* history: the last chunks scheduled since the last reset
  lastEnqClock,                 \* history: clock value read by the latest enqueue
  resetAt,                      \* history: clock value of the last playback reset  
  lastInterruptAt,              \* history: clock of the last Interrupted handled, -1 if none
  fed,                          \* history: the transcript deltas fed by a scenario
  lastEvent                     \* history: what the last step did

vars == << status, errorMessage, connectPc, channel, streamRef, sessionPromiseRef,
           outputAudioContext, capturing, liveStreams, liveChannels, queuedFrames,
           worklets, lastFrame, clock, nextStartTime, audioSources, pending,
           sendPending, revision, messages, currentInputTranscription,
           currentOutputTranscription, sent, playLog, lastEnqClock, resetAt,
           lastInterruptAt, fed, lastEvent >>

lifeVars == << status, errorMessage, connectPc, channel, streamRef, sessionPromiseRef,
               outputAudioContext, capturing, liveStreams, liveChannels, queuedFrames,
               worklets, lastFrame >>
playVars == << nextStartTime, audioSources, playLog, lastEnqClock, resetAt,
               lastInterruptAt >>
logVars == << messages, currentInputTranscription, currentOutputTranscription >>

(***************************************************************************)
(* Bounds of the model.                                                    *)
(***************************************************************************)
MaxClock == 2
MaxDur == 2
MaxStart == 4
MaxText == 2
MaxLog == 3
MaxPending == 1
MaxSent == 1
MaxFed == 2
MaxSessions == 2
MaxQueued == 2
BufferSize == 2
BlockLen == 1
MaxFrames == 2

(***************************************************************************)
(* Text.                                                                   *)
(***************************************************************************)
Revisions == {"part_003", "part_002", "v3"}

Absent == << "#" >>
Chars == {"a", " "}
Texts == {<< >>} \cup {<< c >> : c \in Chars}
TextArgs == {<< "a" >>}

Max(a, b) == IF a >= b THEN a ELSE b

Truthy(s) == s # << >>

RECURSIVE TrimStart(_)
TrimStart(s) ==
  IF s # << >> /\ Head(s) = " " THEN TrimStart(Tail(s)) ELSE s

RECURSIVE TrimEnd(_)
TrimEnd(s) ==
  IF s # << >> /\ s[Len(s)] = " " THEN TrimEnd(SubSeq(s, 1, Len(s) - 1)) ELSE s

Trim(s) == TrimEnd(TrimStart(s))

Last(s) == s[Len(s)]

TruncationMarker == << " ", ".", ".", "." >>
TruncationMarkerP2 == << ".", ".", "." >>

(***************************************************************************)
(* Server messages: LiveServerMessage.serverContent.  audio = 0 means no   *)
(* inline audio part, otherwise it is the decoded buffer's duration.       *)
(***************************************************************************)
Durations == 1 .. MaxDur

ServerMessages ==
  [ audio : 0 .. MaxDur,
    out : Texts \cup {Absent},
    inp : Texts \cup {Absent},
    tc : BOOLEAN,
    intr : BOOLEAN ]

HasText(t) == t # Absent /\ Truthy(t)

(***************************************************************************)
(* part_003: updateMessages(newText, role, isFinal), as the state updater  *)
(* applied to the previous log.                                            *)
(***************************************************************************)
TentativeIndexes_AnyState(prev, role) ==
  { i \in 1 .. Len(prev) : prev[i].role = role }

TentativeIndexes(prev, role) ==
  { i \in 1 .. Len(prev) : prev[i].role = role /\ prev[i].isTentative }

SetMax(S) == CHOOSE x \in S : \A y \in S : y <= x

DedupSafeguard(prev, newText, role, isFinal) ==
  /\ isFinal
  /\ role = "user"
  /\ Len(prev) > 0
  /\ Last(prev).role = "user"
  /\ Last(prev).text = newText
  /\ ~ Last(prev).isTentative

updateMessages(prev, newText, role, isFinal) ==
  IF DedupSafeguard(prev, newText, role, isFinal) THEN prev
  ELSE IF TentativeIndexes(prev, role) # {}
    THEN LET targetIndex == SetMax(TentativeIndexes(prev, role)) IN
         IF isFinal
           THEN [ prev EXCEPT ![targetIndex] =
                    [ @ EXCEPT !.text = IF Truthy(newText) THEN newText ELSE @,
                               !.isTentative = FALSE ] ]
           ELSE [ prev EXCEPT ![targetIndex] = [ @ EXCEPT !.text = newText ] ]
    ELSE IF Truthy(newText)
      THEN Append(prev, [ role |-> role, text |-> newText, isTentative |-> ~ isFinal ])
      ELSE prev

(***************************************************************************)
(* part_003: the transcript part of onmessage (lines 392-418 and 430-434), *)
(* on a state st = [log, cin, cout].                                       *)
(***************************************************************************)
OutputDelta(st, m) ==
  IF HasText(m.out)
    THEN [ st EXCEPT !.cout = st.cout \o m.out,
                     !.log = updateMessages(st.log, st.cout \o m.out, "model", FALSE) ]
    ELSE st

InputDelta_Replace(st, m) ==
  IF HasText(m.inp)
    THEN [ st EXCEPT !.cin = m.inp,
                     !.log = updateMessages(st.log, m.inp, "user", FALSE) ]
    ELSE st

InputDelta(st, m) ==
  IF HasText(m.inp)
    THEN [ st EXCEPT !.cin = st.cin \o m.inp,
                     !.log = updateMessages(st.log, st.cin \o m.inp, "user", FALSE) ]
    ELSE st

FinalizeUser_DropText(st) == [ st EXCEPT !.cin = << >> ]

FinalizeUser(st) ==
  IF Truthy(st.cin)
    THEN [ st EXCEPT !.log = updateMessages(st.log, st.cin, "user", TRUE),
                     !.cin = << >> ]
    ELSE st

FinalizeModel_DropText(st) == [ st EXCEPT !.cout = << >> ]

FinalizeModel(st) ==
  IF Truthy(st.cout)
    THEN [ st EXCEPT !.log = updateMessages(st.log, st.cout, "model", TRUE),
                     !.cout = << >> ]
    ELSE st

TurnComplete(st, m) ==
  IF m.tc THEN FinalizeModel(FinalizeUser(st)) ELSE st

InterruptedText_DropsUser(st, m) ==
  IF m.intr THEN [ st EXCEPT !.cin = << >>, !.cout = << >> ] ELSE st

InterruptedText(st, m) ==
  IF m.intr /\ Truthy(st.cout)
    THEN [ st EXCEPT !.log = updateMessages(st.log, st.cout \o TruncationMarker,
                                            "model", TRUE),
                     !.cout = << >> ]
    ELSE st

Transcripts(st, m) ==
  InterruptedText(TurnComplete(InputDelta(OutputDelta(st, m), m), m), m)


(***************************************************************************)
(* part_002: the transcript part of onmessage (lines 374-462), on a state  *)
(* st = [log, cin, cout].  Tentative entries carry the fixed ids temp-user *)
(* and temp-model; every other id is written "final".                      *)
(***************************************************************************)
NotTempUser(x) == x.id # "temp-user"
NotTempModel(x) == x.id # "temp-model"
NotTemp(x) == x.id \notin {"temp-user", "temp-model"}

InputDeltaP2(st, m) ==
  IF m.inp # Absent
    THEN [ st EXCEPT !.cin = st.cin \o m.inp,
                     !.log = Append(SelectSeq(st.log, NotTempUser),
                                    [ id |-> "temp-user", role |-> "user",
                                      text |-> st.cin \o m.inp, isFinal |-> FALSE ]) ]
    ELSE st

OutputDeltaP2(st, m) ==
  IF m.out # Absent
    THEN [ st EXCEPT !.cout = st.cout \o m.out,
                     !.log = Append(SelectSeq(st.log, NotTempModel),
                                    [ id |-> "temp-model", role |-> "model",
                                      text |-> st.cout \o m.out, isFinal |-> FALSE ]) ]
    ELSE st

PushFinalP2(history, role, text) ==
  IF Truthy(text)
    THEN Append(history, [ id |-> "final", role |-> role, text |-> text,
                           isFinal |-> TRUE ])
    ELSE history

TurnCompleteP2(st, m) ==
  IF m.tc
    THEN [ log |-> PushFinalP2(PushFinalP2(SelectSeq(st.log, NotTemp),
                                           "user", Trim(st.cin)),
                               "model", Trim(st.cout)),
           cin |-> << >>,
           cout |-> << >> ]
    ELSE st

InterruptedTextP2(st, m) ==
  IF m.intr
    THEN [ st EXCEPT !.log = IF Truthy(Trim(st.cout))
                               THEN Append(SelectSeq(st.log, NotTemp),
                                           [ id |-> "final", role |-> "model",
                                             text |-> Trim(st.cout) \o TruncationMarkerP2,
                                             isFinal |-> TRUE ])
                               ELSE st.log,
                     !.cout = << >> ]
    ELSE st

TranscriptsP2(st, m) ==
  InterruptedTextP2(TurnCompleteP2(OutputDeltaP2(InputDeltaP2(st, m), m), m), m)

(***************************************************************************)
(* useGeminiLive.ts revision 3: the transcript part of onmessage           *)
(* (lines 868-909), as the updater of the log.                             *)
(***************************************************************************)
RoleV3(m) == IF m.out # Absent THEN "model" ELSE IF m.inp # Absent THEN "user" ELSE "none"
TextUpdateV3(m) == IF m.out # Absent THEN m.out ELSE IF m.inp # Absent THEN m.inp ELSE << >>

AppendToLastV3(prev, role, textUpdate) ==
  IF Len(prev) > 0 /\ Last(prev).role = role /\ ~ Last(prev).isFinal
    THEN [ prev EXCEPT ![Len(prev)] = [ @ EXCEPT !.text = @ \o textUpdate ] ]
    ELSE IF ~ Truthy(Trim(textUpdate)) THEN prev
    ELSE Append(prev, [ role |-> role, text |-> textUpdate, isFinal |-> FALSE ])

MarkFinalV3(prev, m) ==
  IF m.tc \/ m.intr
    THEN [ i \in 1 .. Len(prev) |-> [ prev[i] EXCEPT !.isFinal = TRUE ] ]
    ELSE prev

TranscriptsV3(prev, m) ==
  MarkFinalV3(IF RoleV3(m) # "none" /\ Truthy(TextUpdateV3(m))
                THEN AppendToLastV3(prev, RoleV3(m), TextUpdateV3(m))
                ELSE prev,
              m)

(***************************************************************************)
(* The transcript part of onmessage that runs after the audio part         *)
(* (part_003, part_002), and the one that runs before it (revision 3).     *)
(***************************************************************************)
TranscriptsAfterAudio(rev, st, m) ==
  CASE rev = "part_003" -> Transcripts(st, m)
    [] rev = "part_002" -> TranscriptsP2(st, m)
    [] OTHER -> st

TranscriptsBeforeAudio(rev, st, m) ==
  IF rev = "v3" THEN [ st EXCEPT !.log = TranscriptsV3(st.log, m) ] ELSE st

(***************************************************************************)
(* Views of the log that hold for every revision.                          *)
(***************************************************************************)
IsTentative(x) ==
  IF "isTentative" \in DOMAIN x THEN x.isTentative ELSE ~ x.isFinal

IsFinal(x) == ~ IsTentative(x)

TentativeOf(log, role) ==
  { i \in 1 .. Len(log) : log[i].role = role /\ IsTentative(log[i]) }

FinalsOf(log) == { i \in 1 .. Len(log) : IsFinal(log[i]) }

LongestText(log) ==
  IF log = << >> THEN 0
  ELSE SetMax({ Len(log[i].text) : i \in 1 .. Len(log) })

(***************************************************************************)
(* Playback scheduler (part_003 lines 364-390 and 420-428).                *)
(***************************************************************************)
EnqueueStart_NoClock(next, now) == next

EnqueueStart(next, now) == Max(next, now)

ScheduledChunk(next, duration, stale) ==
  [ start |-> next, dur |-> duration, stale |-> stale ]

AdvanceNext(next, duration) == next + duration

StopAndClear_Keep(sources) == sources

StopAndClear(sources) == {}

InterruptReset_KeepNext(next, now) == next

InterruptReset(next, now) == now

MarkStale(ps) == [ i \in 1 .. Len(ps) |-> [ ps[i] EXCEPT !.stale = TRUE ] ]

RemoveAt(s, i) == SubSeq(s, 1, i - 1) \o SubSeq(s, i + 1, Len(s))

LastTwo(s) == IF Len(s) > 2 THEN SubSeq(s, Len(s) - 1, Len(s)) ELSE s

RECURSIVE PendingLen(_, _)
PendingLen(ps, field) ==
  IF ps = << >> THEN 0
  ELSE (IF Head(ps).msg[field] = Absent THEN 0 ELSE Len(Head(ps).msg[field]))
       + PendingLen(Tail(ps), field)

(***************************************************************************)
(* PCMProcessor of part_002 (WORKLET_CODE, lines 13-42).  buf holds the    *)
(* samples written since the last post (bytesWritten is its length); next  *)
(* numbers the samples the processor is given, posted counts its posts.    *)
(* A sample is marked old when a newer session is created while it waits   *)
(* in the buffer.  process() writes the samples of one block one by one    *)
(* and posts the buffer each time it is full.  The ScriptProcessorNode of  *)
(* part_003 (line 343) delivers buffers of the same fixed size.            *)
(***************************************************************************)
NewWorklet == [ buf |-> << >>, next |-> 0, posted |-> 0 ]

NoFrame == [ samples |-> << >>, first |-> 0 ]

RECURSIVE process(_, _, _)
process(w, k, out) ==
  IF k = 0 THEN [ w |-> w, out |-> out ]
  ELSE LET buf1 == Append(w.buf, [ n |-> w.next, old |-> FALSE ])
       IN IF Len(buf1) >= BufferSize
            THEN process([ buf |-> << >>, next |-> w.next + 1,
                           posted |-> w.posted + 1 ],
                         k - 1,
                         Append(out, [ samples |-> buf1,
                                       first |-> w.posted * BufferSize ]))
            ELSE process([ w EXCEPT !.buf = buf1, !.next = w.next + 1 ],
                         k - 1, out)

MarkOld(w) ==
  [ w EXCEPT !.buf = [ i \in 1 .. Len(w.buf) |-> [ w.buf[i] EXCEPT !.old = TRUE ] ] ]

(***************************************************************************)
(* History of a scenario: nothing fed yet.                                 *)
(***************************************************************************)
NoFeed == [ role |-> "none", n |-> 0, text |-> << >>, end |-> "open" ]

TypeOK ==
  /\ status \in {"idle", "connecting", "connected", "error"}
  /\ errorMessage \in BOOLEAN
  /\ connectPc \in {"idle", "awaitMic"}
  /\ channel \in {"none", "opening", "open", "closed"}
  /\ streamRef \in BOOLEAN
  /\ sessionPromiseRef \in BOOLEAN
  /\ outputAudioContext \in {"null", "running", "closed"}
  /\ capturing \in BOOLEAN
  /\ liveStreams \in 0 .. MaxSessions
  /\ liveChannels \in 0 .. MaxSessions
  /\ queuedFrames \in 0 .. MaxQueued
  /\ Len(worklets) <= MaxSessions
  /\ \A k \in 1 .. Len(worklets) : Len(worklets[k].buf) < BufferSize
  /\ revision \in Revisions
  /\ clock \in 0 .. MaxClock
  /\ nextStartTime \in 0 .. MaxStart
  /\ Len(pending) <= MaxPending
  /\ Len(messages) <= MaxLog

Init ==
  /\ status = "idle"
  /\ errorMessage = FALSE
  /\ connectPc = "idle"
  /\ channel = "none"
  /\ streamRef = FALSE
  /\ sessionPromiseRef = FALSE
  /\ outputAudioContext = "null"
  /\ capturing = FALSE
  /\ liveStreams = 0
  /\ liveChannels = 0
  /\ queuedFrames = 0
  /\ worklets = << >>
  /\ lastFrame = NoFrame
  /\ revision \in Revisions
  /\ clock = 0
  /\ nextStartTime = 0
  /\ audioSources = {}
  /\ pending = << >>
  /\ sendPending = << >>
  /\ messages = << >>
  /\ currentInputTranscription = << >>
  /\ currentOutputTranscription = << >>
  /\ sent = 0
  /\ playLog = << >>
  /\ lastEnqClock = 0
  /\ resetAt = 0
  /\ lastInterruptAt = -1
  /\ fed = NoFeed
  /\ lastEvent = [ op |-> "init", tc |-> FALSE, intr |-> FALSE ]

(***************************************************************************)
(* onmessage after its audio part: transcripts, turn completion and the    *)
(* interrupted branch (part_003 lines 392-435, part_002 lines 374-462,     *)
(* revision 3 lines 945-951).  srcs, nst and ps are the sources,           *)
(* nextStartTime and suspended calls as the audio part left them, st0 the  *)
(* log and accumulators.                                                   *)
(***************************************************************************)
RestOfMessage(m, st0, srcs, nst, ps, plog) ==
  LET st == TranscriptsAfterAudio(revision, st0, m)
  IN /\ messages' = st.log
     /\ currentInputTranscription' = st.cin
     /\ currentOutputTranscription' = st.cout
     /\ Len(st.log) <= MaxLog
     /\ IF m.intr
          THEN /\ audioSources' = StopAndClear(srcs)
               /\ nextStartTime' = InterruptReset(nst, clock)
               /\ pending' = MarkStale(ps)
               /\ playLog' = << >>
               /\ resetAt' = clock
               /\ lastInterruptAt' = clock
          ELSE /\ audioSources' = srcs
               /\ nextStartTime' = nst
               /\ pending' = ps
               /\ playLog' = plog
               /\ UNCHANGED << resetAt, lastInterruptAt >>

TextRoom(m) ==
  /\ Len(currentInputTranscription) + PendingLen(pending, "inp")
       + (IF m.inp = Absent THEN 0 ELSE Len(m.inp)) <= MaxText
  /\ Len(currentOutputTranscription) + PendingLen(pending, "out")
       + (IF m.out = Absent THEN 0 ELSE Len(m.out)) <= MaxText

(***************************************************************************)
(* onmessage, up to its first suspension (part_003 lines 362-372).  A      *)
(* message with audio reads the clock and suspends at the decode; any      *)
(* other message is handled to its end.  Revision 3 reconciles the         *)
(* transcript before the audio part (lines 868-909).                       *)
(***************************************************************************)
LogState ==
  [ log |-> messages, cin |-> currentInputTranscription,
    cout |-> currentOutputTranscription ]

HandleMessage(m) ==
  /\ channel = "open"
  /\ TextRoom(m)
  /\ LET st == TranscriptsBeforeAudio(revision, LogState, m)
     IN /\ Len(st.log) <= MaxLog
        /\ revision = "v3" => LongestText(st.log) <= MaxText
        /\ IF m.audio > 0 /\ outputAudioContext # "null"
             THEN /\ Len(pending) < MaxPending
                  /\ nextStartTime' = EnqueueStart(nextStartTime, clock)
                  /\ pending' = Append(pending, [ msg |-> m, stale |-> FALSE ])
                  /\ lastEnqClock' = clock
                  /\ messages' = st.log
                  /\ lastEvent' = [ op |-> "enqueue", tc |-> FALSE, intr |-> FALSE ]
                  /\ UNCHANGED << audioSources, playLog, resetAt, lastInterruptAt,
                                  currentInputTranscription,
                                  currentOutputTranscription >>
             ELSE /\ RestOfMessage(m, st, audioSources, nextStartTime, pending,
                                   playLog)
                  /\ lastEvent' = [ op |-> "message", tc |-> m.tc, intr |-> m.intr ]
                  /\ UNCHANGED lastEnqClock
  /\ UNCHANGED << lifeVars, revision, clock, sendPending, sent >>

OnMessage_InterruptStopsCapture(m) ==
  IF m.intr
    THEN /\ channel = "open"
         /\ capturing' = FALSE
         /\ audioSources' = StopAndClear(audioSources)
         /\ nextStartTime' = InterruptReset(nextStartTime, clock)
         /\ lastEvent' = [ op |-> "message", tc |-> m.tc, intr |-> TRUE ]
         /\ UNCHANGED << status, errorMessage, connectPc, channel, streamRef,
                         sessionPromiseRef, outputAudioContext, liveStreams,
                         liveChannels, queuedFrames, worklets, lastFrame, revision,
                         fed, clock, pending,
                         sendPending, logVars, sent, playLog, lastEnqClock, resetAt,
                         lastInterruptAt >>
    ELSE HandleMessage(m) /\ UNCHANGED fed

OnMessage(m) == HandleMessage(m) /\ UNCHANGED fed

(***************************************************************************)
(* onmessage resumed after await decodeAudioData (part_003 lines 379-435): *)
(* the chunk is scheduled at nextStartTime, then the rest of the message   *)
(* is handled.                                                             *)
(***************************************************************************)
DecodeDone(i) ==
  /\ i \in 1 .. Len(pending)
  /\ LET p == pending[i]
         chunk == ScheduledChunk(nextStartTime, p.msg.audio, p.stale)
     IN /\ AdvanceNext(nextStartTime, p.msg.audio) <= MaxStart
        /\ RestOfMessage(p.msg, LogState, audioSources \cup {chunk},
                         AdvanceNext(nextStartTime, p.msg.audio),
                         RemoveAt(pending, i),
                         LastTwo(Append(playLog, [ start |-> chunk.start,
                                                   dur |-> chunk.dur,
                                                   anchor |-> lastEnqClock,
                                                   base |-> resetAt,
                                                   first |-> playLog = << >>,
                                                   stale |-> p.stale ])))
        /\ lastEvent' = [ op |-> "scheduled", tc |-> p.msg.tc, intr |-> p.msg.intr ]
  /\ UNCHANGED << lifeVars, revision, fed, clock, sendPending, sent, lastEnqClock >>

(***************************************************************************)
(* onmessage when decodeAudioData (or base64ToBytes) throws.  part_002     *)
(* (lines 344-371) and revision 3 (lines 914-942) catch and log the error  *)
(* and go on with the rest of the message.  part_003 (lines 365-390) has   *)
(* no try around the audio part: the rejection ends the handler call, and  *)
(* the rest of the message is never read.  nextStartTime keeps the value   *)
(* the maximum with currentTime gave it before the await.                  *)
(***************************************************************************)
DecodeFailed(i) ==
  /\ i \in 1 .. Len(pending)
  /\ LET p == pending[i]
     IN /\ IF revision = "part_003"
             THEN /\ pending' = RemoveAt(pending, i)
                  /\ UNCHANGED << logVars, nextStartTime, audioSources, playLog,
                                  resetAt, lastInterruptAt >>
             ELSE RestOfMessage(p.msg, LogState, audioSources, nextStartTime,
                                RemoveAt(pending, i), playLog)
        /\ lastEvent' = [ op |-> "decodeFailed", tc |-> p.msg.tc, intr |-> p.msg.intr ]
  /\ UNCHANGED << lifeVars, revision, fed, clock, sendPending, sent, lastEnqClock >>

(***************************************************************************)
(* The 'ended' listener of a source (part_003 lines 383-385).              *)
(***************************************************************************)
SourceEnded(c) ==
  /\ c \in audioSources
  /\ clock >= c.start + c.dur
  /\ audioSources' = audioSources \ {c}
  /\ lastEvent' = [ op |-> "ended", tc |-> FALSE, intr |-> FALSE ]
  /\ UNCHANGED << lifeVars, revision, fed, clock, nextStartTime, pending, sendPending,
                  logVars, sent, playLog, lastEnqClock, resetAt, lastInterruptAt >>

(***************************************************************************)
(* The output clock advances while its context runs.                       *)
(***************************************************************************)
Tick ==
  /\ outputAudioContext = "running"
  /\ clock < MaxClock
  /\ clock' = clock + 1
  /\ lastEvent' = [ op |-> "tick", tc |-> FALSE, intr |-> FALSE ]
  /\ UNCHANGED << lifeVars, revision, fed, playVars, pending, sendPending, logVars, sent >>

(***************************************************************************)
(* sendText of part_003 (lines 250-265), up to await sessionPromiseRef,    *)
(* and sendTextMessage of revision 3 (lines 765-778), which appends the    *)
(* message at once and leaves playback alone.  part_002 has neither.       *)
(***************************************************************************)
FinalUserMessage(rev, text) ==
  IF rev = "part_003"
    THEN [ role |-> "user", text |-> text, isTentative |-> FALSE ]
    ELSE [ role |-> "user", text |-> text, isFinal |-> TRUE ]

SendText(text) ==
  /\ revision \in {"part_003", "v3"}
  /\ sessionPromiseRef
  /\ sendPending = << >>
  /\ sent < MaxSent
  /\ sendPending' = Append(sendPending, text)
  /\ IF revision = "part_003"
       THEN /\ audioSources' = StopAndClear(audioSources)
            /\ IF outputAudioContext # "null"
                 THEN /\ nextStartTime' = clock
                      /\ resetAt' = clock
                 ELSE UNCHANGED << nextStartTime, resetAt >>
            /\ playLog' = << >>
            /\ UNCHANGED messages
       ELSE /\ messages' = Append(messages, FinalUserMessage(revision, text))
            /\ Len(messages') <= MaxLog
            /\ UNCHANGED << audioSources, nextStartTime, resetAt, playLog >>
  /\ lastEvent' = [ op |-> "sendText", tc |-> FALSE, intr |-> FALSE ]
  /\ UNCHANGED << lifeVars, revision, fed, clock, pending, currentInputTranscription,
                  currentOutputTranscription, sent, lastEnqClock, lastInterruptAt >>

(***************************************************************************)
(* sendText resumed with the session (part_003 lines 266-293; revision 3   *)
(* lines 778-789).                                                         *)
(***************************************************************************)
SendTextResume ==
  /\ sendPending # << >>
  /\ channel = "open"
  /\ IF revision = "part_003"
       THEN /\ messages' = Append(messages, FinalUserMessage(revision, Head(sendPending)))
            /\ Len(messages') <= MaxLog
       ELSE UNCHANGED messages
  /\ sent' = sent + 1
  /\ sendPending' = Tail(sendPending)
  /\ lastEvent' = [ op |-> "sendTextResume", tc |-> FALSE, intr |-> FALSE ]
  /\ UNCHANGED << lifeVars, revision, fed, clock, playVars, pending,
                  currentInputTranscription, currentOutputTranscription >>

(***************************************************************************)
(* cleanup (part_003 lines 30-58; part_002 lines 70-107 also empties its   *)
(* log; revision 3 lines 627-653).  It is disconnect, and the tail of the  *)
(* error paths.                                                            *)
(***************************************************************************)
CleanupEffects ==
  /\ audioSources' = StopAndClear(audioSources)
  /\ outputAudioContext' = IF outputAudioContext = "null" THEN "null" ELSE "closed"
  /\ capturing' = FALSE
  /\ liveStreams' = IF streamRef THEN liveStreams - 1 ELSE liveStreams
  /\ streamRef' = FALSE
  /\ sessionPromiseRef' = FALSE
  /\ status' = "idle"
  /\ nextStartTime' = 0
  /\ currentInputTranscription' = << >>
  /\ currentOutputTranscription' = << >>
  /\ messages' = IF revision = "part_002" THEN << >> ELSE messages
  /\ playLog' = << >>
  /\ resetAt' = 0
  /\ lastInterruptAt' = -1
  /\ worklets' = IF capturing /\ worklets # << >>
                    THEN SubSeq(worklets, 1, Len(worklets) - 1)
                    ELSE worklets
  /\ UNCHANGED << revision, fed, clock, pending, sendPending, sent, lastEnqClock,
                  liveChannels, queuedFrames, lastFrame >>

Cleanup ==
  /\ CleanupEffects
  /\ lastEvent' = [ op |-> "cleanup", tc |-> FALSE, intr |-> FALSE ]
  /\ UNCHANGED << errorMessage, connectPc, channel >>

(***************************************************************************)
(* connect (part_003 lines 300-328) up to await getUserMedia.  It tests    *)
(* only config, never the status.  part_002 (lines 253-286) leaves the log *)
(* as it is.  The new contexts replace the ones the refs held.             *)
(***************************************************************************)
ConnectBegin ==
  /\ connectPc = "idle"
  /\ liveChannels < MaxSessions
  /\ liveStreams < MaxSessions
  /\ status' = "connecting"
  /\ errorMessage' = FALSE
  /\ messages' = IF revision = "part_002" THEN messages ELSE << >>
  /\ outputAudioContext' = "running"
  /\ clock' = 0
  /\ connectPc' = "awaitMic"
  /\ lastInterruptAt' = -1
  /\ lastEvent' = [ op |-> "connect", tc |-> FALSE, intr |-> FALSE ]
  /\ UNCHANGED << channel, streamRef, sessionPromiseRef, capturing, liveStreams,
                  liveChannels, queuedFrames, worklets, lastFrame, revision, fed,
                  nextStartTime,
                  audioSources, pending, sendPending, currentInputTranscription,
                  currentOutputTranscription, sent, playLog, lastEnqClock, resetAt >>

(***************************************************************************)
(* connect resumed with the microphone stream (part_003 lines 328-333):    *)
(* the stream and the session replace what the refs held, without stopping *)
(* or closing it.  channel is the state of the newest session's socket.    *)
(***************************************************************************)
MicGranted ==
  /\ connectPc = "awaitMic"
  /\ streamRef' = TRUE
  /\ liveStreams' = liveStreams + 1
  /\ sessionPromiseRef' = TRUE
  /\ channel' = "opening"
  /\ liveChannels' = liveChannels + 1
  /\ queuedFrames' = 0
  /\ worklets' = [ k \in 1 .. Len(worklets) |-> MarkOld(worklets[k]) ]
  /\ connectPc' = "idle"
  /\ lastEvent' = [ op |-> "micGranted", tc |-> FALSE, intr |-> FALSE ]
  /\ UNCHANGED << status, errorMessage, outputAudioContext, capturing, lastFrame,
                  revision, fed, clock, playVars, pending, sendPending, logVars, sent >>

(***************************************************************************)
(* connect's catch (part_003 lines 459-464): setStatus(ERROR), cleanup().  *)
(***************************************************************************)
MicDenied_NoCleanup ==
  /\ connectPc = "awaitMic"
  /\ connectPc' = "idle"
  /\ errorMessage' = TRUE
  /\ status' = "error"
  /\ lastEvent' = [ op |-> "micDenied", tc |-> FALSE, intr |-> FALSE ]
  /\ UNCHANGED << channel, streamRef, sessionPromiseRef, outputAudioContext, capturing,
                  liveStreams, liveChannels, queuedFrames, worklets, lastFrame,
                  revision, fed, clock, playVars, pending, sendPending, logVars, sent >>

MicDenied ==
  /\ connectPc = "awaitMic"
  /\ connectPc' = "idle"
  /\ errorMessage' = TRUE
  /\ CleanupEffects
  /\ lastEvent' = [ op |-> "micDenied", tc |-> FALSE, intr |-> FALSE ]
  /\ UNCHANGED channel

(***************************************************************************)
(* onopen, onclose, onerror (part_003 lines 336-361, 437-445).  onopen     *)
(* wires the capture when a stream is held.                                *)
(***************************************************************************)
OnOpen ==
  /\ channel = "opening"
  /\ channel' = "open"
  /\ status' = "connected"
  /\ capturing' = IF streamRef /\ outputAudioContext = "running" THEN TRUE ELSE capturing
  /\ queuedFrames' = 0
  /\ worklets' = IF streamRef /\ outputAudioContext = "running"
                    THEN Append(worklets, NewWorklet)
                    ELSE worklets
  /\ lastEvent' = [ op |-> "open", tc |-> FALSE, intr |-> FALSE ]
  /\ UNCHANGED << errorMessage, connectPc, streamRef, sessionPromiseRef,
                  outputAudioContext, liveStreams, liveChannels, lastFrame, revision,
                  fed, clock,
                  playVars, pending, sendPending, logVars, sent >>

OnClose ==
  /\ channel \in {"opening", "open"}
  /\ channel' = "closed"
  /\ liveChannels' = liveChannels - 1
  /\ status' = "idle"
  /\ queuedFrames' = 0
  /\ lastEvent' = [ op |-> "close", tc |-> FALSE, intr |-> FALSE ]
  /\ UNCHANGED << errorMessage, connectPc, streamRef, sessionPromiseRef,
                  outputAudioContext, capturing, liveStreams, worklets, lastFrame,
                  revision, fed, clock,
                  playVars, pending, sendPending, logVars, sent >>

OnError ==
  /\ channel \in {"opening", "open"}
  /\ errorMessage' = TRUE
  /\ CleanupEffects
  /\ lastEvent' = [ op |-> "error", tc |-> FALSE, intr |-> FALSE ]
  /\ UNCHANGED << connectPc, channel >>

(***************************************************************************)
(* onaudioprocess (part_003 lines 345-354; the worklet port's onmessage in *)
(* part_002, lines 313-333): a captured frame is handed to the session     *)
(* when sessionPromiseRef is set, and dropped otherwise.  The hand-over is *)
(* sessionPromiseRef.current.then(send): while the promise of the newest   *)
(* session is unresolved (its socket is opening) the callback, and the     *)
(* frame it holds, wait for the resolution; onopen is followed by the      *)
(* resolution, which runs the waiting callbacks.                           *)
(***************************************************************************)
OnAudioProcess ==
  /\ capturing
  /\ IF sessionPromiseRef /\ channel = "opening"
       THEN /\ queuedFrames < MaxQueued
            /\ queuedFrames' = queuedFrames + 1
            /\ lastEvent' = [ op |-> "frameQueued", tc |-> FALSE, intr |-> FALSE ]
       ELSE /\ UNCHANGED queuedFrames
            /\ lastEvent' = [ op |-> IF sessionPromiseRef THEN "frameSent"
                                                          ELSE "frameDropped",
                              tc |-> FALSE, intr |-> FALSE ]
  /\ UNCHANGED << status, errorMessage, connectPc, channel, streamRef,
                  sessionPromiseRef, outputAudioContext, capturing, liveStreams,
                  liveChannels, worklets, lastFrame, revision, fed, clock, playVars,
                  pending, sendPending, logVars, sent >>

(***************************************************************************)
(* The capture callback when session.sendRealtimeInput throws for its      *)
(* frame.  part_002 (lines 326-330) catches and logs the error; in         *)
(* part_003 (lines 350-352) the exception rejects the promise then()       *)
(* returned, which nothing reads.  Either way the frame is lost and no     *)
(* state of the hook changes.                                              *)
(***************************************************************************)
FrameSendFailed_Escalates ==
  /\ capturing
  /\ sessionPromiseRef
  /\ channel \in {"open", "closed"}
  /\ errorMessage' = TRUE
  /\ CleanupEffects
  /\ lastEvent' = [ op |-> "frameSendFailed", tc |-> FALSE, intr |-> FALSE ]
  /\ UNCHANGED << connectPc, channel >>

FrameSendFailed ==
  /\ capturing
  /\ sessionPromiseRef
  /\ channel \in {"open", "closed"}
  /\ lastEvent' = [ op |-> "frameSendFailed", tc |-> FALSE, intr |-> FALSE ]
  /\ UNCHANGED << lifeVars, revision, fed, clock, playVars, pending, sendPending,
                  logVars, sent >>

(***************************************************************************)
(* One render block given to a running processor (part_002 lines 23-39),   *)
(* and the port's onmessage for the buffer it posts (lines 313-335): the   *)
(* frame is encoded for the session when sessionPromiseRef is set.         *)
(***************************************************************************)
WorkletProcess(k) ==
  /\ k \in 1 .. Len(worklets)
  /\ worklets[k].next + BlockLen <= MaxFrames * BufferSize
  /\ LET r == process(worklets[k], BlockLen, << >>)
     IN /\ worklets' = [ worklets EXCEPT ![k] = r.w ]
        /\ IF r.out # << >> /\ sessionPromiseRef
             THEN /\ lastFrame' = r.out[Len(r.out)]
                  /\ lastEvent' = [ op |-> "frameEncoded", tc |-> FALSE, intr |-> FALSE ]
             ELSE /\ UNCHANGED lastFrame
                  /\ lastEvent' = [ op |-> "block", tc |-> FALSE, intr |-> FALSE ]
  /\ UNCHANGED << status, errorMessage, connectPc, channel, streamRef,
                  sessionPromiseRef, outputAudioContext, capturing, liveStreams,
                  liveChannels, queuedFrames, revision, fed, clock, playVars, pending,
                  sendPending, logVars, sent >>

(***************************************************************************)
(* The whole engine, from construction.  Its server messages carry one     *)
(* item each.                                                              *)
(***************************************************************************)
SingleItem(m) ==
  Cardinality({ f \in {"audio", "out", "inp", "tc", "intr"} :
                  \/ f = "audio" /\ m.audio > 0
                  \/ f = "out" /\ m.out # Absent
                  \/ f = "inp" /\ m.inp # Absent
                  \/ f = "tc" /\ m.tc
                  \/ f = "intr" /\ m.intr }) = 1

LifecycleMessages ==
  { m \in ServerMessages :
      SingleItem(m) /\ m.audio <= 1 /\ m.tc = FALSE
                    /\ m.out = Absent /\ m.inp \in {Absent, << "a" >>} }

Next ==
  \/ \E m \in LifecycleMessages : OnMessage(m)
  \/ \E i \in 1 .. MaxPending : DecodeDone(i)
  \/ \E c \in audioSources : SourceEnded(c)
  \/ Tick
  \/ \E text \in TextArgs : SendText(text)
  \/ SendTextResume
  \/ OnAudioProcess
  \/ FrameSendFailed
  \/ \E k \in 1 .. MaxSessions : WorkletProcess(k)
  \/ Cleanup
  \/ ConnectBegin
  \/ MicGranted
  \/ MicDenied
  \/ OnOpen
  \/ OnClose
  \/ OnError

Spec == Init /\ [][Next]_vars

(***************************************************************************)
(* The life cycle of the engine, from construction: connect, the callbacks *)
(* of the session, disconnect, captured frames, and audio messages so that *)
(* sources are live when a session ends.                                   *)
(***************************************************************************)
LifecycleAudio ==
  [ audio |-> 1, out |-> Absent, inp |-> Absent, tc |-> FALSE, intr |-> FALSE ]

LifecycleInterrupted ==
  [ audio |-> 0, out |-> Absent, inp |-> Absent, tc |-> FALSE, intr |-> TRUE ]

NextLifecycle ==
  \/ ConnectBegin
  \/ MicGranted
  \/ MicDenied
  \/ OnOpen
  \/ OnClose
  \/ OnError
  \/ Cleanup
  \/ OnAudioProcess
  \/ FrameSendFailed
  \/ \E m \in {LifecycleAudio, LifecycleInterrupted} : OnMessage(m)
  \/ \E i \in 1 .. MaxPending : DecodeDone(i)

SpecLifecycle == Init /\ [][NextLifecycle]_vars

(***************************************************************************)
(* A session in progress: the state connect, the microphone grant and      *)
(* onopen lead to from construction.                                       *)
(***************************************************************************)
InitSession ==
  /\ status = "connected"
  /\ errorMessage = FALSE
  /\ connectPc = "idle"
  /\ channel = "open"
  /\ streamRef = TRUE
  /\ sessionPromiseRef = TRUE
  /\ outputAudioContext = "running"
  /\ capturing = TRUE
  /\ liveStreams = 1
  /\ liveChannels = 1
  /\ queuedFrames = 0
  /\ worklets = << NewWorklet >>
  /\ lastFrame = NoFrame
  /\ revision \in Revisions
  /\ clock = 0
  /\ nextStartTime = 0
  /\ audioSources = {}
  /\ pending = << >>
  /\ sendPending = << >>
  /\ messages = << >>
  /\ currentInputTranscription = << >>
  /\ currentOutputTranscription = << >>
  /\ sent = 0
  /\ playLog = << >>
  /\ lastEnqClock = 0
  /\ resetAt = 0
  /\ lastInterruptAt = -1
  /\ fed = NoFeed
  /\ lastEvent = [ op |-> "open", tc |-> FALSE, intr |-> FALSE ]

(***************************************************************************)
(* The playback side of a session: messages carry audio and the            *)
(* interrupted flag.                                                       *)
(***************************************************************************)
PlaybackMessages ==
  { m \in ServerMessages :
      m.out = Absent /\ m.inp = Absent /\ ~ m.tc /\ (m.audio > 0 \/ m.intr) }

NextPlayback ==
  \/ \E m \in PlaybackMessages : OnMessage(m)
  \/ \E i \in 1 .. MaxPending : DecodeDone(i)
  \/ \E c \in audioSources : SourceEnded(c)
  \/ Tick

InitPlayback == InitSession /\ revision = "part_003"

SpecPlayback == InitPlayback /\ [][NextPlayback]_vars

(***************************************************************************)
(* The transcript side of a session: messages carry any combination of     *)
(* deltas, turnComplete and interrupted, with or without audio.            *)
(***************************************************************************)
AtMostOneItem(m) ==
  Cardinality({ f \in {"out", "inp", "tc", "intr"} :
                  \/ f = "out" /\ m.out # Absent
                  \/ f = "inp" /\ m.inp # Absent
                  \/ f = "tc" /\ m.tc
                  \/ f = "intr" /\ m.intr }) <= 1

PlainTexts == {<< >>, << "a" >>}

TranscriptMessages ==
  { m \in ServerMessages :
      /\ m.audio = 0
      /\ AtMostOneItem(m)
      /\ m.out \in PlainTexts \cup {Absent}
      /\ m.inp \in PlainTexts \cup {Absent} }

NextTranscript ==
  \/ \E m \in TranscriptMessages : OnMessage(m)
  \/ \E text \in TextArgs : SendText(text)
  \/ SendTextResume

SpecTranscript == InitSession /\ [][NextTranscript]_vars

(***************************************************************************)
(* Playback properties of SpecPlayback.  playLog holds the last two        *)
(* chunks scheduled since the last reset of the playback; each entry       *)
(* remembers the clock its enqueue read (anchor) and the clock of the      *)
(* reset before it (base).                                                 *)
(***************************************************************************)
PrevEnd(k) == playLog[k - 1].start + playLog[k - 1].dur

\* C1 as stated: with no interruption in between, every chunk after the
\* first starts exactly where the chunk before it ends.
C1_Gapless ==
  \A k \in 2 .. Len(playLog) : playLog[k].start = PrevEnd(k)

\* C1 amended: every chunk starts at the larger of the end of the chunk
\* before it and the clock read by the latest enqueue, so it starts at the
\* previous end only while playback has not run dry; the first chunk after a
\* reset starts at the larger of the reset clock and that enqueue clock.
C1_GaplessUnlessUnderrun ==
  \A k \in 1 .. Len(playLog) :
    LET c == playLog[k]
    IN IF c.first
         THEN c.start = Max(c.base, c.anchor)
         ELSE k > 1 => /\ c.start = Max(PrevEnd(k), c.anchor)
                       /\ c.start >= PrevEnd(k)

\* A chunk was scheduled after the previous one had run out: it starts at
\* the clock, later than the previous end.
C1_Witness ==
  /\ Len(playLog) = 2
  /\ ~playLog[2].first
  /\ playLog[2].start > PrevEnd(2)
  /\ playLog[2].start = playLog[2].anchor

\* C2: right after an Interrupted message has been handled no source is
\* live; every chunk enqueued after the interrupt starts at or after the
\* interrupt instant, and the first chunk scheduled after it starts at the
\* clock its own enqueue read, not at the nextStartTime reached before.
C2_InterruptAtomicity ==
  /\ lastEvent.intr => audioSources = {}
  /\ \A c \in audioSources : ~c.stale => c.start >= lastInterruptAt
  /\ \A k \in 1 .. Len(playLog) :
       LET c == playLog[k]
       IN (lastInterruptAt >= 0 /\ ~c.stale) =>
            /\ c.start >= lastInterruptAt
            /\ c.first => c.start = c.anchor

\* An interrupt was handled while nextStartTime was ahead of the clock, and
\* a chunk enqueued after it is live, starting at its enqueue clock.
C2_Witness ==
  /\ lastInterruptAt >= 0
  /\ Len(playLog) = 1
  /\ playLog[1].first /\ ~playLog[1].stale
  /\ playLog[1].start = playLog[1].anchor
  /\ \E c \in audioSources : ~c.stale /\ c.start = playLog[1].start

\* C3 as stated: a chunk that was awaiting its decode when an Interrupted
\* message was handled is never among the live sources afterwards.
C3_InterruptWins ==
  \A c \in audioSources : ~c.stale

(***************************************************************************)
(* Transcript properties of SpecTranscript.                                *)
(***************************************************************************)
TentativeText(log, role) ==
  IF TentativeOf(log, role) = {} THEN << >>
  ELSE log[SetMax(TentativeOf(log, role))].text

Roles == {"user", "model"}

\* The message that carries the delta d for the role and nothing else.
DeltaMessage(role, d) ==
  [ audio |-> 0,
    out |-> IF role = "model" THEN d ELSE Absent,
    inp |-> IF role = "user" THEN d ELSE Absent,
    tc |-> FALSE, intr |-> FALSE ]

DeltaStep(role, d) == lastEvent'.op = "message" /\ OnMessage(DeltaMessage(role, d))

IsPrefix(s, t) == Len(s) <= Len(t) /\ SubSeq(t, 1, Len(s)) = s

\* The role's tentative text is the text accumulated for the role: the state
\* a delta of the role leaves behind.
InSync(log, cin, cout, role) ==
  TentativeText(log, role) = IF role = "user" THEN cin ELSE cout

C5_OneTentativePerRole ==
  \A role \in Roles : Cardinality(TentativeOf(messages, role)) <= 1

InterruptedMessage ==
  [ audio |-> 0, out |-> Absent, inp |-> Absent, tc |-> FALSE, intr |-> TRUE ]

InterruptedStep == lastEvent'.intr /\ OnMessage(InterruptedMessage)

\* C8 as stated: handling an Interrupted message changes the log only by
\* finalizing the model's tentative message; the user's tentative message
\* keeps its position, its text and its tentative state, and the text
\* accumulated for the user is unchanged.
C8_InterruptedLeavesUser ==
  [][ InterruptedStep =>
        /\ TentativeOf(messages', "user") = TentativeOf(messages, "user")
        /\ \A i \in TentativeOf(messages, "user") :
             messages'[i].text = messages[i].text
        /\ currentInputTranscription' = currentInputTranscription
        /\ TentativeOf(messages, "model") = {} => messages' = messages ]_vars

TurnCompleteMessage ==
  [ audio |-> 0, out |-> Absent, inp |-> Absent, tc |-> TRUE, intr |-> FALSE ]

TurnCompleteStep == lastEvent'.tc /\ OnMessage(TurnCompleteMessage)

FinalsOfRole(log, role) ==
  { i \in FinalsOf(log) : log[i].role = role }

LastFinalText(log, role) == log[SetMax(FinalsOfRole(log, role))].text

\* C9 as stated: a TurnComplete that finalizes a role's tentative message
\* whose text is the text of the role's last final message adds no final
\* message of that role.
C9_FinalizationIdempotence ==
  [][ TurnCompleteStep =>
        \A role \in Roles :
          ( /\ TentativeOf(messages, role) # {}
            /\ FinalsOfRole(messages, role) # {}
            /\ TentativeText(messages, role) = LastFinalText(messages, role) ) =>
              Cardinality(FinalsOfRole(messages', role))
                = Cardinality(FinalsOfRole(messages, role)) ]_vars

\* C10 as stated: the log never holds two adjacent final messages of one
\* role with the same text.
C10_NoAdjacentDuplicates ==
  \A i \in 1 .. Len(messages) - 1 :
    ~ ( /\ IsFinal(messages[i]) /\ IsFinal(messages[i + 1])
        /\ messages[i].role = messages[i + 1].role
        /\ messages[i].text = messages[i + 1].text )

(***************************************************************************)
(* Scenarios: from the empty log of a connected session, deltas of one     *)
(* role are fed and then one TurnComplete or one Interrupted, while audio  *)
(* chunks arrive and are scheduled.  fed remembers what was fed.           *)
(***************************************************************************)
AudioMessage ==
  [ audio |-> 1, out |-> Absent, inp |-> Absent, tc |-> FALSE, intr |-> FALSE ]

FeedDelta(role, d) ==
  /\ fed.end = "open"
  /\ fed.role \in {"none", role}
  /\ fed.n < MaxFed
  /\ HandleMessage(DeltaMessage(role, d))
  /\ fed' = [ role |-> role, n |-> fed.n + 1, text |-> fed.text \o d,
              end |-> "open" ]

FeedTurnComplete ==
  /\ fed.end = "open"
  /\ fed.n >= 1
  /\ HandleMessage(TurnCompleteMessage)
  /\ fed' = [ fed EXCEPT !.end = "tc" ]

FeedInterrupted ==
  /\ fed.end = "open"
  /\ fed.n >= 1
  /\ HandleMessage(InterruptedMessage)
  /\ fed' = [ fed EXCEPT !.end = "intr" ]

NextScenario ==
  \/ \E role \in Roles, d \in Texts : FeedDelta(role, d)
  \/ FeedTurnComplete
  \/ FeedInterrupted
  \/ OnMessage(AudioMessage)
  \/ \E i \in 1 .. MaxPending : DecodeDone(i)

InitScenario == InitSession /\ revision \in {"part_003", "part_002"}

SpecScenario == InitScenario /\ [][NextScenario]_vars

\* What the revision keeps of an accumulated text when it finalizes it.
FinalText(rev, text) == IF rev = "part_002" THEN Trim(text) ELSE text

MarkerOf(rev) == IF rev = "part_002" THEN TruncationMarkerP2 ELSE TruncationMarker

OneFinal(log, role, text) ==
  /\ Len(log) = 1
  /\ IsFinal(log[1])
  /\ log[1].role = role
  /\ log[1].text = text

UserTurnFed == fed.role = "user" /\ fed.end = "tc"

\* C6 as stated: after one or more user deltas and a TurnComplete, from the
\* empty log, the log is one final user message whose text is the
\* concatenation of the deltas.
C6_RoundTrip ==
  UserTurnFed => OneFinal(messages, "user", fed.text)

\* C6 amended: the log is one final user message whose text is the
\* concatenation of the deltas (without its leading and trailing white
\* space in part_002) when that text is not empty, and the log is empty
\* when it is.
C6_RoundTripNonEmpty ==
  UserTurnFed =>
    IF Truthy(FinalText(revision, fed.text))
      THEN OneFinal(messages, "user", FinalText(revision, fed.text))
      ELSE messages = << >>

\* Two user deltas and a TurnComplete left one final message with both.
C6_Witness ==
  /\ UserTurnFed
  /\ fed.n = 2
  /\ fed.text = << "a", "a" >>
  /\ OneFinal(messages, "user", fed.text)

ModelCutFed == fed.role = "model" /\ fed.end = "intr" /\ lastEvent.intr

\* C7 as stated: after model deltas and an Interrupted, the log is one final
\* model message whose text is the concatenation of the deltas followed by
\* the truncation marker, and no source is live.
C7_Truncation ==
  ModelCutFed =>
    /\ OneFinal(messages, "model", fed.text \o MarkerOf(revision))
    /\ audioSources = {}

\* C7 amended: no source is live; when the concatenation of the deltas
\* (without its leading and trailing white space in part_002) is not empty
\* the log is one final model message, that text followed by the marker;
\* when it is empty the log holds no final message.
C7_TruncationNonEmpty ==
  ModelCutFed =>
    /\ audioSources = {}
    /\ IF Truthy(FinalText(revision, fed.text))
         THEN OneFinal(messages, "model",
                       FinalText(revision, fed.text) \o MarkerOf(revision))
         ELSE FinalsOf(messages) = {}

\* Two model deltas were cut by an Interrupted: one final message with the
\* marker, no live source.
C7_Witness ==
  /\ ModelCutFed
  /\ fed.text = << "a", "a" >>
  /\ OneFinal(messages, "model", fed.text \o MarkerOf(revision))
  /\ lastInterruptAt >= 0
  /\ audioSources = {}

(***************************************************************************)
(* Further transcript properties of SpecTranscript.                        *)
(***************************************************************************)
\* C11 as stated: a delta with empty text for a role that has no tentative
\* message leaves the log unchanged.
C11_EmptyDeltaNoMessage ==
  [][ \A role \in Roles :
        (TentativeOf(messages, role) = {} /\ DeltaStep(role, << >>)) =>
          messages' = messages ]_vars

HasFinal(log, role, text) ==
  \E i \in FinalsOfRole(log, role) : log[i].text = text

\* C12 as stated: after a TurnComplete has been handled no tentative
\* message remains and both accumulators are empty; a role whose tentative
\* text was not empty has that text as a final message, and a role whose
\* tentative text was empty has gained no message.
C12_TurnCompleteFinalizes ==
  [][ TurnCompleteStep =>
        /\ currentInputTranscription' = << >>
        /\ currentOutputTranscription' = << >>
        /\ \A role \in Roles :
             /\ TentativeOf(messages', role) = {}
             /\ IF Truthy(TentativeText(messages, role))
                  THEN HasFinal(messages', role, TentativeText(messages, role))
                  ELSE Cardinality(FinalsOfRole(messages', role))
                         = Cardinality(FinalsOfRole(messages, role)) ]_vars

(***************************************************************************)
(* Life cycle properties of SpecLifecycle.                                 *)
(***************************************************************************)
\* C13 as stated: status changes only from idle to connecting, from
\* connecting to connected when the session opens, from connected to idle,
\* from connecting or connected to error, and to idle when cleanup runs
\* (disconnect, and the error paths that end with it); it never becomes
\* connected from idle or error.
C13_StatusEdges ==
  [][ status' # status =>
        \/ status = "idle" /\ status' = "connecting"
        \/ status = "connecting" /\ status' = "connected" /\ lastEvent'.op = "open"
        \/ status = "connected" /\ status' = "idle"
        \/ status \in {"connecting", "connected"} /\ status' = "error"
        \/ status' = "idle" /\ lastEvent'.op \in {"cleanup", "micDenied", "error"} ]_vars

\* C14 as stated: a connect made while status is not idle changes no state,
\* and at no time is there more than one microphone stream or more than one
\* open session.
C14_ReentrantConnectRejected ==
  /\ [][ (status # "idle" /\ lastEvent'.op = "connect") =>
           UNCHANGED << status, connectPc, outputAudioContext, messages,
                        errorMessage >> ]_vars
  /\ [](liveStreams <= 1 /\ liveChannels <= 1)

\* C15 as stated: of two successive disconnects made from status connected,
\* the first releases the microphone stream once and closes the session once,
\* and the second changes no state.
C15_DisconnectIdempotent ==
  [][ lastEvent'.op = "cleanup" =>
        /\ (status = "connected" /\ streamRef) =>
             /\ liveStreams' = liveStreams - 1
             /\ liveChannels' = liveChannels - 1
             /\ channel' = "closed"
        /\ lastEvent.op = "cleanup" =>
             UNCHANGED << lifeVars, playVars, logVars >> ]_vars

\* C16 as stated: whatever the status, a disconnect leaves the microphone
\* released, no chunk playing, the session closed and status idle.
C16_DisconnectTearsDown ==
  [][ lastEvent'.op = "cleanup" =>
        /\ streamRef' = FALSE
        /\ capturing' = FALSE
        /\ audioSources' = {}
        /\ channel' \notin {"opening", "open"}
        /\ status' = "idle" ]_vars

\* C17 as stated: when the session is closed by the remote side while status
\* is connected, status becomes idle, the microphone is released, the playing
\* chunks are stopped and the session is released; and no audio frame is
\* sent once the session is closed.
C17_RemoteCloseTearsDown ==
  [][ /\ (status = "connected" /\ lastEvent'.op = "close") =>
           /\ status' = "idle"
           /\ streamRef' = FALSE
           /\ capturing' = FALSE
           /\ audioSources' = {}
           /\ sessionPromiseRef' = FALSE
      /\ lastEvent'.op = "frameSent" => channel # "closed" ]_vars

\* C18 as stated: a session error raised while status is connecting or
\* connected releases the microphone, stops the playing chunks and drops the
\* session, and leaves status error with the error message set.
C18_ChannelErrorEndsInError ==
  [][ (status \in {"connecting", "connected"} /\ lastEvent'.op = "error") =>
        /\ streamRef' = FALSE
        /\ capturing' = FALSE
        /\ audioSources' = {}
        /\ sessionPromiseRef' = FALSE
        /\ errorMessage' = TRUE
        /\ status' = "error" ]_vars

\* C19: when getUserMedia rejects, the attempt opens no session (the stream
\* is asked for before ai.live.connect is called), the stream and session
\* refs are empty and the audio contexts of the attempt are closed
\* afterwards, the error message is set and status is idle.
C19_MicDeniedAbortsBeforeNetwork ==
  [][ lastEvent'.op = "micDenied" =>
        /\ liveChannels' = liveChannels
        /\ channel' = channel
        /\ liveStreams' <= liveStreams
        /\ streamRef' = FALSE
        /\ sessionPromiseRef' = FALSE
        /\ capturing' = FALSE
        /\ outputAudioContext' = "closed"
        /\ errorMessage' = TRUE
        /\ status' = "idle" ]_vars

C19_Witness ==
  /\ lastEvent.op = "micDenied"
  /\ channel = "none"
  /\ liveChannels = 0
  /\ errorMessage
  /\ status = "idle"

(***************************************************************************)
(* Decode failures: messages carry audio and at most one of a user         *)
(* transcription, turnComplete and interrupted; the decode of each either  *)
(* resolves or rejects.                                                    *)
(***************************************************************************)
DecodeMessages ==
  { m \in ServerMessages :
      /\ m.audio = 1
      /\ m.out = Absent
      /\ m.inp \in {Absent, << "a" >>}
      /\ ~ (m.tc /\ m.intr)
      /\ m.inp # Absent => ~ m.tc /\ ~ m.intr }

NextDecode ==
  \/ \E m \in DecodeMessages : OnMessage(m)
  \/ \E i \in 1 .. MaxPending : DecodeDone(i)
  \/ \E i \in 1 .. MaxPending : DecodeFailed(i)
  \/ Tick

SpecDecode == InitSession /\ [][NextDecode]_vars

\* C20 as stated: when the decode of a message's audio fails, no chunk is
\* scheduled for it, nextStartTime and the playing sources stay as they
\* were (unless the message itself is an interruption), status and the
\* session are untouched, and the transcription, turnComplete and
\* interrupted parts of the same message are handled as for any message.
C20_DecodeErrorRecovered ==
  [][ \A i \in 1 .. Len(pending) :
        (lastEvent'.op = "decodeFailed" /\ DecodeFailed(i)) =>
          LET m == pending[i].msg
              st == TranscriptsAfterAudio(revision, LogState, m)
          IN /\ UNCHANGED lifeVars
             /\ messages' = st.log
             /\ currentInputTranscription' = st.cin
             /\ currentOutputTranscription' = st.cout
             /\ IF m.intr
                  THEN audioSources' = {} /\ nextStartTime' = clock
                  ELSE audioSources' = audioSources /\ nextStartTime' = nextStartTime
    ]_vars

(***************************************************************************)
(* Text turns during playback: audio messages, their decodes, the clock    *)
(* and sendText.                                                           *)
(***************************************************************************)
NextSendText ==
  \/ OnMessage(AudioMessage)
  \/ \E i \in 1 .. MaxPending : DecodeDone(i)
  \/ Tick
  \/ \E text \in TextArgs : SendText(text)
  \/ SendTextResume

SpecSendText == InitSession /\ [][NextSendText]_vars

\* C21 as stated: a text turn sent while a session exists first stops and
\* clears every playing source and sets nextStartTime to the current clock,
\* sending nothing yet; the send that follows adds exactly one final user
\* message carrying the text to the log.
C21_SendTextClearsPlayback ==
  [][ /\ lastEvent'.op = "sendText" =>
           /\ audioSources' = {}
           /\ nextStartTime' = clock
           /\ sent' = sent
      /\ lastEvent'.op = "sendTextResume" =>
           /\ sent' = sent + 1
           /\ \E k \in FinalsOfRole(messages', "user") :
                messages'[k].text = Head(sendPending)
           /\ Cardinality(FinalsOfRole(messages', "user"))
                <= Cardinality(FinalsOfRole(messages, "user")) + 1 ]_vars

(***************************************************************************)
(* Concurrency of the message handler, over SpecPlayback and SpecDecode.   *)
(***************************************************************************)
\* C22 as stated: the handling of a server message never begins while the
\* handling of an earlier one is suspended at its audio decode.
C22_HandlersSerialized ==
  [][ lastEvent'.op \in {"message", "enqueue"} => pending = << >> ]_vars

(***************************************************************************)
(* Arrival order: deltas of one role are fed, some in messages that also   *)
(* carry audio and so suspend at the decode before their transcription is  *)
(* read.  fed.text is the concatenation of the deltas in arrival order.    *)
(***************************************************************************)
AudioDeltaMessage(role, d) == [ DeltaMessage(role, d) EXCEPT !.audio = 1 ]

FeedAudioDelta(role, d) ==
  /\ fed.end = "open"
  /\ fed.role \in {"none", role}
  /\ fed.n < MaxFed
  /\ HandleMessage(AudioDeltaMessage(role, d))
  /\ fed' = [ role |-> role, n |-> fed.n + 1, text |-> fed.text \o d,
              end |-> "open" ]

NextOrder ==
  \/ \E role \in Roles, d \in Texts : FeedDelta(role, d)
  \/ \E role \in Roles, d \in Texts : FeedAudioDelta(role, d)
  \/ \E i \in 1 .. MaxPending : DecodeDone(i)
  \/ Tick

SpecOrder == InitScenario /\ [][NextOrder]_vars

Accumulated(role) ==
  IF role = "user" THEN currentInputTranscription ELSE currentOutputTranscription

\* C23 as stated: once every message received has been handled to its end,
\* the text accumulated for a role is the concatenation, in arrival order,
\* of the deltas received for it, also when one of them came with audio.
C23_DeltasInArrivalOrder ==
  (fed.role \in Roles /\ pending = << >>) => Accumulated(fed.role) = fed.text

(***************************************************************************)
(* Interleavings within one turn: deltas of one role and audio messages    *)
(* arrive in any order, the decodes resolve, the clock runs, and one       *)
(* TurnComplete ends the turn.                                             *)
(***************************************************************************)
NextInterleave ==
  \/ \E role \in Roles, d \in Texts : FeedDelta(role, d)
  \/ FeedTurnComplete
  \/ OnMessage(AudioMessage)
  \/ \E i \in 1 .. MaxPending : DecodeDone(i)
  \/ Tick

SpecInterleave == InitScenario /\ [][NextInterleave]_vars

TurnFed == fed.role \in Roles /\ fed.end = "tc"

C25_ScheduledAtMaxOfEndAndClock ==
  /\ [](\A c, d \in audioSources :
          c # d => (c.start + c.dur <= d.start \/ d.start + d.dur <= c.start))
  /\ [][ lastEvent'.op = "scheduled" =>
           \A c \in audioSources' \ audioSources :
             c.start = Max(nextStartTime, clock) ]_vars

(***************************************************************************)
(* Capture properties of SpecLifecycle.                                    *)
(***************************************************************************)
\* C26 as stated: no captured frame is put on a session whose socket has
\* not opened; onopen moves status to connected and, when a microphone
\* stream is held, leaves the capture running; and whenever status is
\* connected, the stream is held and the socket is open, the capture runs
\* and has a session to send to.
C26_CaptureStartsOnOpen ==
  /\ [][ /\ lastEvent'.op = "frameSent" => channel \notin {"none", "opening"}
         /\ lastEvent'.op = "open" =>
              /\ status' = "connected"
              /\ streamRef => capturing' ]_vars
  /\ []((status = "connected" /\ streamRef /\ channel = "open") =>
          (capturing /\ sessionPromiseRef))

\* C27 as stated: a captured frame that cannot be handed to the session at
\* once is dropped, so at most one captured frame ever waits to be sent.
C27_NoFrameBacklog == queuedFrames <= 1

\* C28: when the send of one captured frame fails, status, the error
\* message, the live sources, nextStartTime and the log stay as they were,
\* and the capture and its session stay in place, so the frames that follow
\* are still handed to the session.
C28_SendFailureDropsFrame ==
  [][ lastEvent'.op = "frameSendFailed" =>
        /\ UNCHANGED << status, errorMessage, audioSources, nextStartTime, messages,
                        streamRef, channel >>
        /\ capturing'
        /\ sessionPromiseRef' ]_vars

\* A frame failed to send in a connected session while a chunk was playing.
C28_Witness ==
  /\ lastEvent.op = "frameSendFailed"
  /\ status = "connected"
  /\ channel = "open"
  /\ audioSources # {}
  /\ capturing

\* C29: the handling of an Interrupted message changes nothing of the
\* outbound path: status, the socket, the microphone stream, the capture
\* and the session it sends to are as before, so in a connected session
\* the frames captured afterwards are still sent.
C29_InterruptLeavesCapture ==
  [][ lastEvent'.intr =>
        UNCHANGED << status, channel, streamRef, capturing, sessionPromiseRef,
                     queuedFrames, liveStreams, liveChannels >> ]_vars

\* A frame was sent in a connected session after an Interrupted message had
\* been handled in it.
C29_Witness ==
  /\ lastEvent.op = "frameSent"
  /\ lastInterruptAt >= 0
  /\ status = "connected"
  /\ channel = "open"
  /\ capturing

(***************************************************************************)
(* The capture processor over the life cycle: sessions are opened, closed  *)
(* by the server or by disconnect, and opened again, while the running     *)
(* processors are given render blocks.                                     *)
(***************************************************************************)
NextWorklet ==
  \/ ConnectBegin
  \/ MicGranted
  \/ OnOpen
  \/ OnClose
  \/ Cleanup
  \/ \E k \in 1 .. MaxSessions : WorkletProcess(k)

SpecWorklet == Init /\ [][NextWorklet]_vars

\* C30 as stated: a frame handed to the encoder holds exactly the fixed
\* number of samples, they are the samples that follow the frame before it,
\* in order, and none of them was captured before the session the frame is
\* sent in was created.
C30_FramesWholeAndOfTheirSession ==
  lastFrame # NoFrame =>
    /\ Len(lastFrame.samples) = BufferSize
    /\ \A i \in 1 .. Len(lastFrame.samples) :
         /\ lastFrame.samples[i].n = lastFrame.first + i - 1
         /\ ~ lastFrame.samples[i].old

(***************************************************************************)
(* Disconnect during a connect, over SpecLifecycle.  A connect is in       *)
(* flight while it awaits getUserMedia (connectPc) or while the socket of  *)
(* the session it created is opening.                                      *)
(***************************************************************************)
\* C31 as stated: when a disconnect was made while a connect awaited the
\* microphone or the open of its session, the completion of that connect
\* that follows (the grant of the microphone, the open of the session)
\* leaves status idle, no microphone stream held and no session opening or
\* open.
C31_CancelledConnectStaysIdle ==
  [][ (lastEvent.op = "cleanup" /\ lastEvent'.op \in {"micGranted", "open"}) =>
        /\ status' = "idle"
        /\ streamRef' = FALSE
        /\ liveStreams' = liveStreams
        /\ channel' \notin {"opening", "open"} ]_vars

\* C32 as stated: the step that follows a disconnect schedules no chunk,
\* leaves no source live and puts no captured frame on a session, also when
\* a decode was awaited or a frame waited for its session when the
\* disconnect was made.
C32_NothingAfterDisconnect ==
  [][ lastEvent.op = "cleanup" =>
        /\ lastEvent'.op \notin {"scheduled", "frameSent"}
        /\ audioSources' = {}
        /\ lastEvent'.op = "open" => queuedFrames = 0 ]_vars

(***************************************************************************)
(* Transcripts over several sessions: sessions are opened, ended by the    *)
(* server, by an error or by disconnect, and opened again, while           *)
(* transcription deltas arrive.                                            *)
(***************************************************************************)
NextSessions ==
  \/ ConnectBegin
  \/ MicGranted
  \/ OnOpen
  \/ OnClose
  \/ OnError
  \/ Cleanup
  \/ \E role \in Roles : OnMessage(DeltaMessage(role, << "a" >>))

SpecSessions == Init /\ [][NextSessions]_vars

\* C33 as stated: when a connect succeeds the log and both accumulators
\* are empty, and the first delta handled in the new session leaves a
\* tentative message of its role whose text is that delta alone.
C33_NoTextAcrossSessions ==
  [][ /\ lastEvent'.op = "open" =>
           /\ messages' = << >>
           /\ currentInputTranscription' = << >>
           /\ currentOutputTranscription' = << >>
      /\ \A role \in Roles :
           (lastEvent.op = "open" /\ DeltaStep(role, << "a" >>)) =>
              TentativeText(messages', role) = << "a" >> ]_vars

(***************************************************************************)
(* Consistency of the log, over SpecTranscript.                            *)
(***************************************************************************)
\* C34 as stated: in part_003 and part_002 the log holds a tentative message
\* of a role exactly when the text accumulated for the role is not empty,
\* and the text of that message is the accumulated text.
C34_LogMatchesAccumulators ==
  revision \in {"part_003", "part_002"} =>
    \A role \in Roles :
      /\ TentativeOf(messages, role) # {} <=> Truthy(Accumulated(role))
      /\ TentativeOf(messages, role) # {} =>
           TentativeText(messages, role) = Accumulated(role)

\* The final messages of a log, in its order, as role and text.
RECURSIVE FinalView(_)
FinalView(log) ==
  IF log = << >> THEN << >>
  ELSE (IF IsFinal(Head(log))
          THEN << [ role |-> Head(log).role, text |-> Head(log).text ] >>
          ELSE << >>) \o FinalView(Tail(log))

\* s can be obtained from t by removing entries of t.
RECURSIVE IsSubseq(_, _)
IsSubseq(s, t) ==
  IF s = << >> THEN TRUE
  ELSE IF t = << >> THEN FALSE
  ELSE IF Head(s) = Head(t) THEN IsSubseq(Tail(s), Tail(t))
  ELSE IsSubseq(s, Tail(t))

\* C35: within a session no step (a delta, TurnComplete, Interrupted, a text
\* turn) removes a final message, changes its role or its text, or changes
\* the order of the final messages: the final messages before the step are
\* found, in the same order, among the final messages after it.
C35_FinalMessagesStable ==
  [][ IsSubseq(FinalView(messages), FinalView(messages')) ]_vars

\* A TurnComplete was handled in a log that already held a final message,
\* after a text turn was sent: the log holds finals of both roles.
C35_Witness ==
  /\ lastEvent.op = "message" /\ lastEvent.tc
  /\ sent = 1
  /\ FinalsOfRole(messages, "user") # {}
  /\ FinalsOfRole(messages, "model") # {}
  /\ Len(messages) = MaxLog

BothTentative(log) ==
  TentativeOf(log, "user") # {} /\ TentativeOf(log, "model") # {}

\* The model's tentative message stands before the user's.
ModelFirst(log) ==
  SetMax(TentativeOf(log, "model")) < SetMax(TentativeOf(log, "user"))

BothFinal(log) ==
  FinalsOfRole(log, "user") # {} /\ FinalsOfRole(log, "model") # {}

\* The model's last final message stands before the user's.
ModelFinalFirst(log) ==
  SetMax(FinalsOfRole(log, "model")) < SetMax(FinalsOfRole(log, "user"))

\* C36 as stated: in part_003 and part_002, while both roles have a
\* tentative message, a further delta of either role leaves the two in the
\* order they were in, and a TurnComplete that finalizes both (both texts
\* hold more than white space) leaves the two final messages in that order.
C36_FinalizationKeepsOrder ==
  [][ (revision \in {"part_003", "part_002"} /\ BothTentative(messages)) =>
        /\ \A role \in Roles, d \in PlainTexts :
             DeltaStep(role, d) =>
               /\ BothTentative(messages')
               /\ ModelFirst(messages') = ModelFirst(messages)
        /\ ( /\ TurnCompleteStep
             /\ Truthy(Trim(currentInputTranscription))
             /\ Truthy(Trim(currentOutputTranscription)) ) =>
               /\ BothFinal(messages')
               /\ ModelFinalFirst(messages') = ModelFirst(messages) ]_vars

(***************************************************************************)
(* An interruption inside a user turn: from the empty log of a connected   *)
(* session user deltas are fed, then one Interrupted, then further user    *)
(* deltas and one TurnComplete, while model deltas arrive so that the      *)
(* interruption has a model message to cut.  fed.end is "cut" after the    *)
(* Interrupted and "cuttc" after the TurnComplete.                         *)
(***************************************************************************)
FeedCut ==
  /\ fed.end = "open"
  /\ fed.role = "user"
  /\ HandleMessage(InterruptedMessage)
  /\ fed' = [ fed EXCEPT !.end = "cut" ]

FeedDeltaAfterCut(d) ==
  /\ fed.end = "cut"
  /\ fed.n < MaxFed
  /\ HandleMessage(DeltaMessage("user", d))
  /\ fed' = [ fed EXCEPT !.n = @ + 1, !.text = @ \o d ]

FeedTurnCompleteAfterCut ==
  /\ fed.end = "cut"
  /\ HandleMessage(TurnCompleteMessage)
  /\ fed' = [ fed EXCEPT !.end = "cuttc" ]

NextCut ==
  \/ \E d \in Texts : fed.n < MaxFed - 1 /\ FeedDelta("user", d)
  \/ FeedCut
  \/ \E d \in Texts : FeedDeltaAfterCut(d)
  \/ FeedTurnCompleteAfterCut
  \/ fed.end \in {"open", "cut"} /\ OnMessage(DeltaMessage("model", << "a" >>))

SpecCut == InitScenario /\ [][NextCut]_vars

UserCutTurnFed == fed.role = "user" /\ fed.end = "cuttc"

FinalUserTexts(log) == { log[i].text : i \in FinalsOfRole(log, "user") }

\* C37 as stated: after user deltas, an Interrupted, further user deltas
\* and a TurnComplete, from the empty log, the log holds one final user
\* message and its text is the concatenation of all the user deltas in
\* arrival order.
C37_UserTextSurvivesInterrupt ==
  UserCutTurnFed =>
    /\ Cardinality(FinalsOfRole(messages, "user")) = 1
    /\ FinalUserTexts(messages) = { fed.text }

\* C37 amended: when the concatenation of all the user deltas (without its
\* leading and trailing white space in part_002) is not empty, the log
\* holds one final user message and its text is that concatenation; when
\* it is empty the log holds no final user message.
C37_UserTextSurvivesInterruptNonEmpty ==
  UserCutTurnFed =>
    IF Truthy(FinalText(revision, fed.text))
      THEN /\ Cardinality(FinalsOfRole(messages, "user")) = 1
           /\ FinalUserTexts(messages) = { FinalText(revision, fed.text) }
      ELSE FinalsOfRole(messages, "user") = {}

\* A user delta, an Interrupted that cut a model message, a second user
\* delta and a TurnComplete: the final user message holds both deltas.
C37_Witness ==
  /\ UserCutTurnFed
  /\ fed.text = << "a", "a" >>
  /\ FinalUserTexts(messages) = { fed.text }
  /\ \E i \in FinalsOfRole(messages, "model") :
       messages[i].text = << "a" >> \o MarkerOf(revision)

====
